---- MODULE Spec2Model ----
(***************************************************************************)
(* Model of the Rune class database (database/class.c): template classes   *)
(* (tclasses), their concrete classes, the signature matcher that decides  *)
(* whether a constructor call reuses a class or creates one, the default   *)
(* class path, and the tuple built for the generated toString method.      *)
(***************************************************************************)
EXTENDS Integers, Sequences, FiniteSets, TLC

VARIABLES
  functions,   \* constructor functions: block variables, methods, builtin, tclass
  tclasses,    \* deTheRoot's list of tclasses, indexed by handle
  classes,     \* deTheRoot's list of classes, indexed by handle
  signatures,  \* the signatures the binder has created
  aborted,     \* TRUE once a utAssert has failed
  calls,       \* every (operation, tclass, signature, returned class) so far
  fnIn,        \* input of the pure function under check
  fnOut        \* its result

vars == <<functions, tclasses, classes, signatures, aborted, calls, fnIn, fnOut>>

-----------------------------------------------------------------------------
(* Bounds *)

MaxClasses == 3
MaxSignatures == 3
MaxVariables == 3
MaxMembers == 2

(* Program constants *)

Null == 0

-----------------------------------------------------------------------------
(* Datatypes.  Datatypes are hash-consed in the compiler, so handle        *)
(* equality is structural equality of these records.                       *)

deUintDatatypeCreate(width) ==
  [type |-> "UINT", width |-> width, class |-> Null, tclass |-> Null]

deStringDatatypeCreate ==
  [type |-> "STRING", width |-> Null, class |-> Null, tclass |-> Null]

deTclassDatatypeCreate(tclass) ==
  [type |-> "TCLASS", width |-> Null, class |-> Null, tclass |-> tclass]

deClassDatatypeCreate(theClass) ==
  [type |-> "CLASS", width |-> Null, class |-> theClass, tclass |-> Null]

deTBDClassDatatypeCreate(tclass) ==
  [type |-> "TBDCLASS", width |-> Null, class |-> Null, tclass |-> tclass]

deDatatypeNull ==
  [type |-> "NONE", width |-> Null, class |-> Null, tclass |-> Null]

NoSignature == [function |-> Null, paramTypes |-> <<>>]

SigKey(signature) ==
  [function |-> signature.function, paramTypes |-> signature.paramTypes]

-----------------------------------------------------------------------------
(* Constructor blocks *)

Param(inSig) == [type |-> "PARAMETER", inTclassSignature |-> inSig]
Local(inSig) == [type |-> "LOCAL", inTclassSignature |-> inSig]

\* The constructor declarations the parser hands over: the parameters of
\* the header, then the locals of the body.  Only a parameter is ever part
\* of the class signature.
ConstructorBlocks ==
  { << Param(FALSE), Local(FALSE) >>,
    << Param(TRUE), Param(FALSE), Local(FALSE) >>,
    << Param(FALSE), Param(TRUE) >>,
    << Param(TRUE), Param(TRUE) >> }

RECURSIVE CountParameters(_)
CountParameters(block) ==
  IF block = <<>> THEN 0
  ELSE (IF Head(block).type = "PARAMETER" THEN 1 ELSE 0) + CountParameters(Tail(block))

-----------------------------------------------------------------------------
(* datatypesCompatible, class.c:91 *)

\* Variant: the placeholder rule applied with the two datatypes exchanged.
datatypesCompatible_swapped(newDatatype, oldDatatype) ==
  IF newDatatype = oldDatatype THEN TRUE
  ELSE IF oldDatatype.type # "TBDCLASS" \/ newDatatype.type # "CLASS" THEN FALSE
  ELSE classes[newDatatype.class].tclass = oldDatatype.tclass

datatypesCompatible(newDatatype, oldDatatype) ==
  IF newDatatype = oldDatatype THEN TRUE
  ELSE IF newDatatype.type # "TBDCLASS" \/ oldDatatype.type # "CLASS" THEN FALSE
  ELSE classes[oldDatatype.class].tclass = newDatatype.tclass

(* classSignaturesMatch, class.c:107.  The loop over the block variables   *)
(* from index i on, with xParam the number of parameters passed so far.    *)

\* Variant: every parameter is compared, flagged or not.
RECURSIVE classSignaturesMatch_allParams(_, _, _, _, _)
classSignaturesMatch_allParams(block, i, xParam, newSignature, oldSignature) ==
  IF i > Len(block) THEN TRUE
  ELSE IF block[i].type # "PARAMETER" THEN TRUE
  ELSE IF ~datatypesCompatible(newSignature.paramTypes[xParam + 1],
                               oldSignature.paramTypes[xParam + 1])
       THEN FALSE
  ELSE classSignaturesMatch_allParams(block, i + 1, xParam + 1, newSignature, oldSignature)

\* Variant: the flag test inverted, so only unflagged parameters are compared.
RECURSIVE classSignaturesMatch_unflagged(_, _, _, _, _)
classSignaturesMatch_unflagged(block, i, xParam, newSignature, oldSignature) ==
  IF i > Len(block) THEN TRUE
  ELSE IF block[i].type # "PARAMETER" THEN TRUE
  ELSE IF /\ ~block[i].inTclassSignature
          /\ ~datatypesCompatible(newSignature.paramTypes[xParam + 1],
                                  oldSignature.paramTypes[xParam + 1])
       THEN FALSE
  ELSE classSignaturesMatch_unflagged(block, i + 1, xParam + 1, newSignature, oldSignature)

RECURSIVE classSignaturesMatchFrom(_, _, _, _, _)
classSignaturesMatchFrom(block, i, xParam, newSignature, oldSignature) ==
  IF i > Len(block) THEN TRUE
  ELSE IF block[i].type # "PARAMETER" THEN TRUE
  ELSE IF /\ block[i].inTclassSignature
          /\ ~datatypesCompatible(newSignature.paramTypes[xParam + 1],
                                  oldSignature.paramTypes[xParam + 1])
       THEN FALSE
  ELSE classSignaturesMatchFrom(block, i + 1, xParam + 1, newSignature, oldSignature)

classSignaturesMatch(newSignature, oldSignature) ==
  classSignaturesMatchFrom(functions[newSignature.function].block, 1, 0,
                           newSignature, oldSignature)

-----------------------------------------------------------------------------
(* The database: the tclasses and the classes of the root. *)

DB == [tclasses |-> tclasses, classes |-> classes]

deFunctionGetTclass(function) == functions[function].tclass

deTclassGetFirstClass(db, tclass) ==
  IF db.tclasses[tclass].classes = <<>> THEN Null
  ELSE Head(db.tclasses[tclass].classes)

(* findExistingClass, class.c:131.  The scan of the tclass's classes from  *)
(* list position i on; assertFailed reports a failed utAssert.             *)

\* Variant: a later class that matches is preferred to an earlier one.
RECURSIVE findExistingClass_lastMatch(_, _, _)
findExistingClass_lastMatch(tclass, i, signature) ==
  IF i > Len(tclasses[tclass].classes)
  THEN [class |-> Null, assertFailed |-> FALSE]
  ELSE LET theClass == tclasses[tclass].classes[i]
           otherSignature == classes[theClass].firstSignature
           later == findExistingClass_lastMatch(tclass, i + 1, signature)
       IN IF otherSignature = NoSignature
          THEN [class |-> theClass,
                assertFailed |-> ~tclasses[tclass].hasDefaultClass]
          ELSE IF later.class # Null THEN later
          ELSE IF classSignaturesMatch(signature, otherSignature)
          THEN [class |-> theClass, assertFailed |-> FALSE]
          ELSE later

RECURSIVE findExistingClassFrom(_, _, _)
findExistingClassFrom(tclass, i, signature) ==
  IF i > Len(tclasses[tclass].classes)
  THEN [class |-> Null, assertFailed |-> FALSE]
  ELSE LET theClass == tclasses[tclass].classes[i]
           otherSignature == classes[theClass].firstSignature
       IN IF otherSignature = NoSignature
          THEN [class |-> theClass,
                assertFailed |-> ~tclasses[tclass].hasDefaultClass]
          ELSE IF classSignaturesMatch(signature, otherSignature)
          THEN [class |-> theClass, assertFailed |-> FALSE]
          ELSE findExistingClassFrom(tclass, i + 1, signature)

findExistingClass(signature) ==
  findExistingClassFrom(deFunctionGetTclass(signature.function), 1, signature)

(* deVariableCreate(block, type, isConst, name, initializer, generated, line) *)
deVariableCreate(type, isConst, name, generated, line) ==
  [sym |-> name, type |-> type, isConst |-> isConst, generated |-> generated,
   isType |-> FALSE, datatype |-> deDatatypeNull, instantiated |-> FALSE,
   line |-> line]

(* classCreate, class.c:148: the database after the call.  The new class   *)
(* gets the next handle of the root's class list.                          *)

\* Variant: the class is put at the head of the tclass's list.
classCreate_prepend(db, tclass) ==
  LET theClass == Len(db.classes) + 1
      numClass == db.tclasses[tclass].numClasses + 1
      refWidth == db.tclasses[tclass].refWidth
      nextFree == [deVariableCreate("LOCAL", FALSE, "nextFree", TRUE, 0) EXCEPT
                     !.datatype = deUintDatatypeCreate(refWidth),
                     !.instantiated = TRUE]
  IN [tclasses |-> [db.tclasses EXCEPT ![tclass].numClasses = numClass,
                                       ![tclass].classes = << theClass >> \o @],
      classes |-> Append(db.classes,
         [tclass |-> tclass, number |-> numClass, refWidth |-> refWidth,
          firstSignature |-> NoSignature,
          datatype |-> deClassDatatypeCreate(theClass),
          subBlock |-> [line |-> db.tclasses[tclass].line,
                        variables |-> << nextFree >>, idents |-> <<>>]])]

\* Variant: the class counter is not advanced.
classCreate_sameNumber(db, tclass) ==
  LET theClass == Len(db.classes) + 1
      numClass == db.tclasses[tclass].numClasses
      nextFree == [deVariableCreate("LOCAL", FALSE, "nextFree", TRUE, 0)
                     EXCEPT !.datatype = deUintDatatypeCreate(db.tclasses[tclass].refWidth),
                            !.instantiated = TRUE]
      record == [tclass |-> tclass,
                 number |-> numClass,
                 refWidth |-> db.tclasses[tclass].refWidth,
                 firstSignature |-> NoSignature,
                 datatype |-> deClassDatatypeCreate(theClass),
                 subBlock |-> [line |-> db.tclasses[tclass].line,
                               variables |-> << nextFree >>,
                               idents |-> <<>>]]
  IN [tclasses |-> [db.tclasses EXCEPT ![tclass].numClasses = numClass,
                                       ![tclass].classes = Append(@, theClass)],
      classes |-> Append(db.classes, record)]

classCreate(db, tclass) ==
  LET theClass == Len(db.classes) + 1
      numClass == db.tclasses[tclass].numClasses + 1
      nextFree == [deVariableCreate("LOCAL", FALSE, "nextFree", TRUE, 0)
                     EXCEPT !.datatype = deUintDatatypeCreate(db.tclasses[tclass].refWidth),
                            !.instantiated = TRUE]
      record == [tclass |-> tclass,
                 number |-> numClass,
                 refWidth |-> db.tclasses[tclass].refWidth,
                 firstSignature |-> NoSignature,
                 datatype |-> deClassDatatypeCreate(theClass),
                 subBlock |-> [line |-> db.tclasses[tclass].line,
                               variables |-> << nextFree >>,
                               idents |-> <<>>]]
  IN [tclasses |-> [db.tclasses EXCEPT ![tclass].numClasses = numClass,
                                       ![tclass].classes = Append(@, theClass)],
      classes |-> Append(db.classes, record)]

(* deClassCreate, class.c:171: the class returned and the database after   *)
(* the call, or the failed assertion of the scan.                          *)

\* Variant: neither the cached class nor the existing classes are consulted.
deClassCreate_alwaysCreate(tclass, signature) ==
  LET db == classCreate(DB, tclass)
  IN [ret |-> Len(db.classes), db |-> db, assertFailed |-> FALSE]

deClassCreate(tclass, signature) ==
  IF signature.class # Null
  THEN [ret |-> signature.class, db |-> DB, assertFailed |-> FALSE]
  ELSE LET theClass == findExistingClass(signature)
       IN IF theClass.assertFailed
          THEN [ret |-> Null, db |-> DB, assertFailed |-> TRUE]
          ELSE IF theClass.class # Null
          THEN [ret |-> theClass.class, db |-> DB, assertFailed |-> FALSE]
          ELSE LET db == classCreate(DB, tclass)
               IN [ret |-> Len(db.classes), db |-> db, assertFailed |-> FALSE]

(* tclassHasTemplateParameters, class.c:184 *)

\* Variant: the loop returns after the first variable.
tclassHasTemplateParameters_firstOnly(tclass) ==
  LET block == functions[tclasses[tclass].function].block
  IN Len(block) > 0 /\ block[1].inTclassSignature

tclassHasTemplateParameters(tclass) ==
  LET block == functions[tclasses[tclass].function].block
  IN \E i \in 1..Len(block) : block[i].inTclassSignature

(* defaultClassCreate, class.c:196 (static, and called from nowhere). *)
defaultClassCreate(db, tclass) ==
  LET theClass == Len(db.classes) + 1
      numClasses == db.tclasses[tclass].numClasses + 1
      selfType == deClassDatatypeCreate(theClass)
      nextFree == [deVariableCreate("LOCAL", FALSE, "nextFree", FALSE, 0)
                     EXCEPT !.datatype = selfType, !.instantiated = TRUE]
      oldMethods == functions[db.tclasses[tclass].function].methods
      record == [tclass |-> tclass,
                 number |-> numClasses,
                 refWidth |-> Null,
                 firstSignature |-> NoSignature,
                 datatype |-> selfType,
                 subBlock |-> [line |-> db.tclasses[tclass].line,
                               variables |-> << nextFree >>,
                               idents |-> [i \in 1..Len(oldMethods) |->
                                            [type |-> "FUNCTION",
                                             sym |-> oldMethods[i].sym,
                                             function |-> oldMethods[i].sym]]]]
  IN [tclasses |-> [db.tclasses EXCEPT ![tclass].numClasses = numClasses,
                                       ![tclass].classes = Append(@, theClass)],
      classes |-> Append(db.classes, record)]

(* deTclassGetDefaultClass, class.c:227: the class returned (or Null) and  *)
(* the database after the call.                                            *)

\* Variant: the tclass is flagged before the template-parameter test.
deTclassGetDefaultClass_flagFirst(tclass) ==
  IF ~tclasses[tclass].hasDefaultClass
  THEN IF tclassHasTemplateParameters(tclass)
       THEN [ret |-> Null,
             db |-> [DB EXCEPT !.tclasses[tclass].hasDefaultClass = TRUE]]
       ELSE LET db1 == IF deTclassGetFirstClass(DB, tclass) = Null
                       THEN classCreate(DB, tclass)
                       ELSE DB
                db2 == [db1 EXCEPT !.tclasses[tclass].hasDefaultClass = TRUE]
            IN [ret |-> deTclassGetFirstClass(db2, tclass), db |-> db2]
  ELSE [ret |-> deTclassGetFirstClass(DB, tclass), db |-> DB]

\* Variant: the first-class test and deTclassSetHasDefaultClass are missing.
deTclassGetDefaultClass_noFlag(tclass) ==
  IF ~tclasses[tclass].hasDefaultClass
  THEN IF tclassHasTemplateParameters(tclass)
       THEN [ret |-> Null, db |-> DB]
       ELSE LET db1 == classCreate(DB, tclass)
            IN [ret |-> deTclassGetFirstClass(db1, tclass), db |-> db1]
  ELSE [ret |-> deTclassGetFirstClass(DB, tclass), db |-> DB]

deTclassGetDefaultClass(tclass) ==
  IF ~tclasses[tclass].hasDefaultClass
  THEN IF tclassHasTemplateParameters(tclass)
       THEN [ret |-> Null, db |-> DB]
       ELSE LET db1 == IF deTclassGetFirstClass(DB, tclass) = Null
                       THEN classCreate(DB, tclass)
                       ELSE DB
                db2 == [db1 EXCEPT !.tclasses[tclass].hasDefaultClass = TRUE]
            IN [ret |-> deTclassGetFirstClass(db2, tclass), db |-> db2]
  ELSE [ret |-> deTclassGetFirstClass(DB, tclass), db |-> DB]

(* addDestroyMethod, class.c:59: the method added to the class block. *)
addDestroyMethod(line) ==
  [sym |-> "destroy", type |-> "DESTRUCTOR", line |-> line,
   parameters |-> << deVariableCreate("PARAMETER", TRUE, "self", FALSE, line) >>,
   statements |-> <<>>]

-----------------------------------------------------------------------------
(* Operations *)

PureIdle == /\ fnIn = <<>>
            /\ fnOut = <<>>

Call(op, tclass, signature, ret) ==
  [op |-> op, tclass |-> tclass, signature |-> signature, ret |-> ret]

(* The tclass deTclassCreate allocates and fills in. *)
tclassRecord(constructor, refWidth, line, tclass) ==
  [function |-> constructor, refWidth |-> refWidth, line |-> line,
   datatype |-> deTclassDatatypeCreate(tclass),
   hasDefaultClass |-> FALSE, numClasses |-> 0, classes |-> <<>>]

(* deTclassCreate, class.c:75: the new tclass, the root's tclass list and  *)
(* the functions after the call.                                           *)

\* Variant: the destructor is added to builtin classes too.
deTclassCreate_alwaysDestroy(constructor, refWidth, line) ==
  LET tclass == Len(tclasses) + 1
  IN [ret |-> tclass,
      tclasses |-> Append(tclasses, tclassRecord(constructor, refWidth, line, tclass)),
      functions |-> [functions EXCEPT
         ![constructor].tclass = tclass,
         ![constructor].methods =
            Append(@, addDestroyMethod(functions[constructor].line))]]

deTclassCreate(constructor, refWidth, line) ==
  LET tclass == Len(tclasses) + 1
  IN [ret |-> tclass,
      tclasses |-> Append(tclasses, tclassRecord(constructor, refWidth, line, tclass)),
      functions |-> [functions EXCEPT
         ![constructor].tclass = tclass,
         ![constructor].methods =
            IF functions[constructor].builtin THEN @
            ELSE Append(@, addDestroyMethod(functions[constructor].line))]]

(* deCopyTclass, class.c:242. *)

\* Variant: the copy takes the width and line of the destination.
deCopyTclass_ownWidth(tclass, destConstructor) ==
  deTclassCreate(destConstructor, functions[destConstructor].refWidth,
                 functions[destConstructor].line)

deCopyTclass(tclass, destConstructor) ==
  deTclassCreate(destConstructor, tclasses[tclass].refWidth, tclasses[tclass].line)

(* A call of deTclassCreate.  The parser declares the classes in order. *)
TclassCreate(constructor, refWidth, line) ==
  /\ ~aborted
  /\ functions[constructor].tclass = Null
  /\ \A f \in 1..(constructor - 1) : functions[f].tclass # Null
  /\ LET out == deTclassCreate(constructor, refWidth, line)
     IN /\ tclasses' = out.tclasses
        /\ functions' = out.functions
  /\ UNCHANGED <<classes, signatures, aborted, calls, fnIn, fnOut>>

(* A call of deClassCreate by the binder. *)
ClassCreate(signature) ==
  /\ ~aborted
  /\ signature \in signatures
  /\ LET tclass == deFunctionGetTclass(signature.function)
         out == deClassCreate(tclass, signature)
     IN /\ Len(out.db.classes) <= MaxClasses
        /\ tclasses' = out.db.tclasses
        /\ classes' = out.db.classes
        /\ aborted' = out.assertFailed
        /\ calls' = IF out.assertFailed THEN calls
                    ELSE calls \cup {Call("deClassCreate", tclass, SigKey(signature),
                                          out.ret)}
  /\ UNCHANGED <<functions, signatures, fnIn, fnOut>>

(* A call of deTclassGetDefaultClass. *)
TclassGetDefaultClass(tclass) ==
  /\ ~aborted
  /\ LET out == deTclassGetDefaultClass(tclass)
     IN /\ Len(out.db.classes) <= MaxClasses
        /\ tclasses' = out.db.tclasses
        /\ classes' = out.db.classes
        /\ calls' = calls \cup {Call("deTclassGetDefaultClass", tclass, NoSignature,
                                     out.ret)}
  /\ UNCHANGED <<functions, signatures, aborted, fnIn, fnOut>>

(* A call of deCopyTclass. *)
CopyTclass(tclass, destConstructor) ==
  /\ ~aborted
  /\ functions[destConstructor].tclass = Null
  /\ LET out == deCopyTclass(tclass, destConstructor)
     IN /\ tclasses' = out.tclasses
        /\ functions' = out.functions
  /\ UNCHANGED <<classes, signatures, aborted, calls, fnIn, fnOut>>

(* The binder, outside class.c: it creates one signature per constructor   *)
(* and list of argument datatypes, and it records the class a constructor  *)
(* call resolved to on the signature; the first signature recorded on a    *)
(* class is the class's founding signature.                                *)

CurrentDatatypes ==
  {deUintDatatypeCreate(32)}
    \cup {deTBDClassDatatypeCreate(t) : t \in 1..Len(tclasses)}
    \cup {deClassDatatypeCreate(c) : c \in 1..Len(classes)}

SignatureCreate(function, paramTypes) ==
  /\ ~aborted
  /\ functions[function].tclass # Null
  /\ Cardinality(signatures) < MaxSignatures
  /\ \A s \in signatures : SigKey(s) # [function |-> function, paramTypes |-> paramTypes]
  /\ signatures' = signatures \cup
       {[function |-> function, paramTypes |-> paramTypes, class |-> Null]}
  /\ UNCHANGED <<functions, tclasses, classes, aborted, calls, fnIn, fnOut>>

ClassAppendSignature(theClass, signature) ==
  /\ ~aborted
  /\ signature \in signatures
  /\ signature.class = Null
  /\ Call("deClassCreate", deFunctionGetTclass(signature.function),
          SigKey(signature), theClass) \in calls
  /\ signatures' = (signatures \ {signature})
                     \cup {[signature EXCEPT !.class = theClass]}
  /\ classes' = [classes EXCEPT ![theClass].firstSignature =
                   IF @ = NoSignature THEN SigKey(signature) ELSE @]
  /\ UNCHANGED <<functions, tclasses, aborted, calls, fnIn, fnOut>>

-----------------------------------------------------------------------------
(* The compilation: the parser's constructor, then any sequence of calls. *)

UserMethod ==
  [sym |-> "area", type |-> "PLAIN", line |-> 1,
   parameters |-> << deVariableCreate("PARAMETER", TRUE, "self", FALSE, 1) >>,
   statements |-> << "return" >>]

\* A user class for every block, and one builtin class.
Constructors ==
  {[block |-> b, builtin |-> FALSE, refWidth |-> 32, line |-> 1, tclass |-> Null,
    methods |-> << UserMethod >>] : b \in ConstructorBlocks}
  \cup
  {[block |-> << Param(FALSE) >>, builtin |-> TRUE, refWidth |-> 16, line |-> 1,
    tclass |-> Null, methods |-> << UserMethod >>]}

RECURSIVE SeqsOf(_, _)
SeqsOf(S, n) ==
  IF n = 0 THEN {<<>>}
  ELSE {Append(q, x) : q \in SeqsOf(S, n - 1), x \in S}

Init ==
  /\ \E c \in Constructors : functions = << c >>
  /\ tclasses = <<>>
  /\ classes = <<>>
  /\ signatures = {}
  /\ aborted = FALSE
  /\ calls = {}
  /\ PureIdle

Next ==
  \/ \E f \in DOMAIN functions :
       TclassCreate(f, functions[f].refWidth, functions[f].line)
  \/ \E f \in DOMAIN functions :
       \E types \in SeqsOf(CurrentDatatypes, CountParameters(functions[f].block)) :
         SignatureCreate(f, types)
  \/ \E s \in signatures : ClassCreate(s)
  \/ \E s \in signatures, c \in 1..Len(classes) : ClassAppendSignature(c, s)
  \/ \E t \in 1..Len(tclasses) : TclassGetDefaultClass(t)

Spec == Init /\ [][Next]_vars

(* A compilation that copies a class: the parser's constructor, and the    *)
(* constructor of the copy, whose tclass deCopyTclass creates.             *)

\* Classes with one constructor parameter: a user class whose parameter
\* is in the tclass signature, one whose parameter is not, and the builtin.
CopiedConstructors ==
  {[block |-> << Param(inSig) >>, builtin |-> FALSE, refWidth |-> 32, line |-> 1,
    tclass |-> Null, methods |-> << UserMethod >>] : inSig \in BOOLEAN}
  \cup {c \in Constructors : c.builtin}

DestConstructor(c) == [c EXCEPT !.refWidth = 64, !.line = 2]

InitCopy ==
  /\ \E c \in CopiedConstructors : functions = << c, DestConstructor(c) >>
  /\ tclasses = <<>>
  /\ classes = <<>>
  /\ signatures = {}
  /\ aborted = FALSE
  /\ calls = {}
  /\ PureIdle

NextCopy ==
  \/ TclassCreate(1, functions[1].refWidth, functions[1].line)
  \/ \E t \in 1..Len(tclasses) : CopyTclass(t, 2)
  \/ \E f \in DOMAIN functions :
       \E types \in SeqsOf(CurrentDatatypes, CountParameters(functions[f].block)) :
         SignatureCreate(f, types)
  \/ \E s \in signatures : ClassCreate(s)
  \/ \E s \in signatures, c \in 1..Len(classes) : ClassAppendSignature(c, s)
  \/ \E t \in 1..Len(tclasses) : TclassGetDefaultClass(t)

SpecCopy == InitCopy /\ [][NextCopy]_vars

-----------------------------------------------------------------------------
(* Expressions of the generated toString method *)

deExpressionCreate(type) ==
  [type |-> type, name |-> "", width |-> Null, datatype |-> deDatatypeNull,
   children |-> <<>>]

deIdentExpressionCreate(sym) ==
  [deExpressionCreate("IDENT") EXCEPT !.name = sym]

deBinaryExpressionCreate(type, left, right) ==
  [deExpressionCreate(type) EXCEPT !.children = << left, right >>]

deExpressionSetDatatype(expr, datatype) == [expr EXCEPT !.datatype = datatype]

deExpressionAppendExpression(expr, child) ==
  [expr EXCEPT !.children = Append(@, child)]

deTupleDatatypeCreate(types) ==
  [type |-> "TUPLE", width |-> Null, class |-> Null, tclass |-> Null,
   types |-> types]

(* buildClassTupleExpression, class.c:247.  The loop over the class        *)
(* block's variables from index i on, with the tuple and the element       *)
(* datatypes built so far.                                                 *)

\* Variant: class members are appended without the cast.
RECURSIVE buildClassTupleExpression_noCast(_, _, _, _, _)
buildClassTupleExpression_noCast(classBlock, selfExpr, i, tupleExpr, types) ==
  IF i > Len(classBlock)
  THEN deExpressionSetDatatype(tupleExpr, deTupleDatatypeCreate(types))
  ELSE LET variable == classBlock[i]
       IN IF ~variable.isType /\ ~variable.generated
          THEN LET datatype == variable.datatype
                   varExpr == deIdentExpressionCreate(variable.sym)
                   dotExpr == deExpressionSetDatatype(
                                deBinaryExpressionCreate("DOT", selfExpr, varExpr),
                                datatype)
               IN buildClassTupleExpression_noCast(classBlock, selfExpr, i + 1,
                    deExpressionAppendExpression(tupleExpr, dotExpr),
                    Append(types, datatype))
          ELSE buildClassTupleExpression_noCast(classBlock, selfExpr, i + 1,
                                                tupleExpr, types)

RECURSIVE buildClassTupleExpressionFrom(_, _, _, _, _)
buildClassTupleExpressionFrom(classBlock, selfExpr, i, tupleExpr, types) ==
  IF i > Len(classBlock)
  THEN deExpressionSetDatatype(tupleExpr, deTupleDatatypeCreate(types))
  ELSE LET variable == classBlock[i]
       IN IF ~variable.isType /\ ~variable.generated
          THEN LET datatype == variable.datatype
                   varExpr == deIdentExpressionCreate(variable.sym)
                   dotExpr == deExpressionSetDatatype(
                                deBinaryExpressionCreate("DOT", selfExpr, varExpr),
                                datatype)
                   uint32Datatype == deUintDatatypeCreate(32)
                   uintTypeExpr == deExpressionSetDatatype(
                                     [deExpressionCreate("UINTTYPE") EXCEPT !.width = 32],
                                     uint32Datatype)
                   castExpr == deExpressionSetDatatype(
                                 deBinaryExpressionCreate("CAST", uintTypeExpr, dotExpr),
                                 uint32Datatype)
               IN buildClassTupleExpressionFrom(classBlock, selfExpr, i + 1,
                    deExpressionAppendExpression(tupleExpr,
                       IF datatype.type # "CLASS" THEN dotExpr ELSE castExpr),
                    Append(types, datatype))
          ELSE buildClassTupleExpressionFrom(classBlock, selfExpr, i + 1,
                                             tupleExpr, types)

buildClassTupleExpression(classBlock, selfExpr) ==
  buildClassTupleExpressionFrom(classBlock, selfExpr, 1,
                                deExpressionCreate("TUPLE"), <<>>)

(* The format buffer is the sequence of the pieces appended to it: a text  *)
(* piece per deAppendToBuffer call, a slot piece per format element.       *)

deAppendToBuffer(format, text) ==
  Append(format, [kind |-> "text", text |-> text, datatype |-> deDatatypeNull])

\* The slot that prints one tuple element; it is chosen by the element's
\* datatype.
deAppendOneFormatElement(format, expression) ==
  Append(format, [kind |-> "slot", text |-> "", datatype |-> expression.datatype])

deExpressionGetLastExpression(expr) == expr.children[Len(expr.children)]

deStringExpressionCreate(string) ==
  [type |-> "STRING", name |-> "", width |-> Null,
   datatype |-> deStringDatatypeCreate, children |-> <<>>, string |-> string]

(* findObjectPrintFormat, class.c:279.  The loop over the tuple's          *)
(* children from index i on.                                               *)

\* Variant: the member's name is always read from the element's last child.
RECURSIVE findObjectPrintFormat_noUnwrap(_, _, _, _)
findObjectPrintFormat_noUnwrap(tupleExpr, i, firstTime, format) ==
  IF i > Len(tupleExpr.children)
  THEN deAppendToBuffer(format, "}")
  ELSE LET child == tupleExpr.children[i]
           format1 == IF ~firstTime THEN deAppendToBuffer(format, ", ") ELSE format
           identExpr == deExpressionGetLastExpression(child)
           format2 == deAppendToBuffer(format1, identExpr.name)
           format3 == deAppendToBuffer(format2, " = ")
       IN findObjectPrintFormat_noUnwrap(tupleExpr, i + 1, FALSE,
                                         deAppendOneFormatElement(format3, child))

RECURSIVE findObjectPrintFormatFrom(_, _, _, _)
findObjectPrintFormatFrom(tupleExpr, i, firstTime, format) ==
  IF i > Len(tupleExpr.children)
  THEN deAppendToBuffer(format, "}")
  ELSE LET child == tupleExpr.children[i]
           format1 == IF ~firstTime THEN deAppendToBuffer(format, ", ") ELSE format
           identExpr ==
             IF child.type = "CAST"
             THEN deExpressionGetLastExpression(deExpressionGetLastExpression(child))
             ELSE deExpressionGetLastExpression(child)
           format2 == deAppendToBuffer(format1, identExpr.name)
           format3 == deAppendToBuffer(format2, " = ")
       IN findObjectPrintFormatFrom(tupleExpr, i + 1, FALSE,
                                    deAppendOneFormatElement(format3, child))

findObjectPrintFormat(tupleExpr) ==
  findObjectPrintFormatFrom(tupleExpr, 1, TRUE, deAppendToBuffer(<<>>, "{"))

(* deGenerateDefaultToStringMethod, class.c:307: the function it creates   *)
(* in the class block.                                                     *)
deGenerateDefaultToStringMethod(theClass) ==
  LET classBlock == classes[theClass].subBlock
      line == classBlock.line
      selfExpr == deExpressionSetDatatype(deIdentExpressionCreate("self"),
                                          deClassDatatypeCreate(theClass))
      tupleExpr == buildClassTupleExpression(classBlock.variables, selfExpr)
      format == findObjectPrintFormat(tupleExpr)
      formatExpr == deStringExpressionCreate(format)
      modExpr == deBinaryExpressionCreate("MOD", formatExpr, tupleExpr)
  IN [sym |-> "toString", type |-> "PLAIN", line |-> 0,
      parameters |-> << deVariableCreate("PARAMETER", TRUE, "self", FALSE, line) >>,
      statements |-> << [type |-> "RETURN", line |-> line, expression |-> modExpr] >>]

deCStringExpressionCreate(text) ==
  deStringExpressionCreate(deAppendToBuffer(<<>>, text))

(* deGenerateDefaultDumpMethod, class.c:330: the function it creates in    *)
(* the class block.                                                        *)

\* Variant: the print statement prints the call only.
deGenerateDefaultDumpMethod_noNewline(theClass) ==
  LET line == classes[theClass].subBlock.line
      selfExpr == deExpressionSetDatatype(deIdentExpressionCreate("self"),
                                          deClassDatatypeCreate(theClass))
      toStringExpr == deIdentExpressionCreate("toString")
      accessExpr == deBinaryExpressionCreate("DOT", selfExpr, toStringExpr)
      callExpr == deBinaryExpressionCreate("CALL", accessExpr,
                                           deExpressionCreate("LIST"))
      printArgsExpr == deExpressionAppendExpression(deExpressionCreate("LIST"),
                                                    callExpr)
  IN [sym |-> "dump", type |-> "PLAIN", line |-> line,
      parameters |-> << deVariableCreate("PARAMETER", TRUE, "self", FALSE, line) >>,
      statements |-> << [type |-> "PRINT", line |-> line,
                         expression |-> printArgsExpr] >>]

deGenerateDefaultDumpMethod(theClass) ==
  LET line == classes[theClass].subBlock.line
      selfExpr == deExpressionSetDatatype(deIdentExpressionCreate("self"),
                                          deClassDatatypeCreate(theClass))
      toStringExpr == deIdentExpressionCreate("toString")
      accessExpr == deBinaryExpressionCreate("DOT", selfExpr, toStringExpr)
      paramsExpr == deExpressionCreate("LIST")
      callExpr == deBinaryExpressionCreate("CALL", accessExpr, paramsExpr)
      newlineExpr == deCStringExpressionCreate("\n")
      printArgsExpr == deBinaryExpressionCreate("LIST", callExpr, newlineExpr)
  IN [sym |-> "dump", type |-> "PLAIN", line |-> line,
      parameters |-> << deVariableCreate("PARAMETER", TRUE, "self", FALSE, line) >>,
      statements |-> << [type |-> "PRINT", line |-> line,
                         expression |-> printArgsExpr] >>]

(* The identifier table of a block: at most one identifier per name; a     *)
(* declaration of a bound name binds the name anew.                        *)

deFunctionNull ==
  [sym |-> "", type |-> "NULL", line |-> 0, parameters |-> <<>>,
   statements |-> <<>>]

deIdentNull == [type |-> "NULL", sym |-> "", function |-> deFunctionNull]

deBlockFindIdent(block, sym) ==
  LET found == {k \in 1..Len(block.idents) : block.idents[k].sym = sym}
  IN IF found = {} THEN deIdentNull
     ELSE block.idents[CHOOSE k \in found : \A j \in found : j <= k]

deIdentCreate(block, type, sym, function) ==
  [block EXCEPT !.idents =
     Append(SelectSeq(@, LAMBDA ident : ident.sym # sym),
            [type |-> type, sym |-> sym, function |-> function])]

(* deClassFindMethod, class.c:357. *)

\* Variant: toString is answered with the generated default.
deClassFindMethod_generatedDefault(theClass, methodSym) ==
  IF methodSym = "toString" THEN deGenerateDefaultToStringMethod(theClass)
  ELSE LET ident == deBlockFindIdent(classes[theClass].subBlock, methodSym)
       IN IF ident = deIdentNull \/ ident.type # "FUNCTION" THEN deFunctionNull
          ELSE ident.function

deClassFindMethod(theClass, methodSym) ==
  LET block == classes[theClass].subBlock
      ident == deBlockFindIdent(block, methodSym)
  IN IF ident = deIdentNull \/ ident.type # "FUNCTION" THEN deFunctionNull
     ELSE ident.function

(* What running a method yields, as far as the generated methods need it:  *)
(* a return statement yields its string (for format % tuple, the format),  *)
(* a print statement writes its arguments in order, and a call             *)
(* self.<name>() runs the method the class binds <name> to at that time.   *)

ReturnValue(function) ==
  LET expr == function.statements[1].expression
  IN IF expr.type = "MOD" THEN expr.children[1].string ELSE expr.string

RECURSIVE PrintArguments(_, _, _)
PrintArguments(theClass, arguments, i) ==
  IF i > Len(arguments) THEN <<>>
  ELSE LET argument == arguments[i]
           value == IF argument.type = "CALL"
                    THEN ReturnValue(deClassFindMethod(theClass,
                           argument.children[1].children[2].name))
                    ELSE argument.string
       IN value \o PrintArguments(theClass, arguments, i + 1)

PrintOutput(theClass, function) ==
  PrintArguments(theClass, function.statements[1].expression.children, 1)

-----------------------------------------------------------------------------
(* The pure functions, each applied to inputs drawn from bounded sets. *)

\* Two tclasses; classes 1 and 3 belong to tclass 1, class 2 to tclass 2.
FixtureDB ==
  classCreate(classCreate(classCreate(
    [tclasses |-> << tclassRecord(1, 32, 1, 1), tclassRecord(2, 16, 1, 2) >>,
     classes |-> <<>>], 1), 2), 1)

FixtureConstructor(block, tclass) ==
  [block |-> block, builtin |-> FALSE, refWidth |-> 32, line |-> 1,
   tclass |-> tclass, methods |-> <<>>]

FixtureInit(block) ==
  /\ functions = << FixtureConstructor(block, 1), FixtureConstructor(<<>>, 2) >>
  /\ tclasses = FixtureDB.tclasses
  /\ classes = FixtureDB.classes
  /\ signatures = {}
  /\ aborted = FALSE
  /\ calls = {}
  /\ fnOut = <<>>

FixtureUnchanged == UNCHANGED <<functions, tclasses, classes, signatures, aborted,
                               calls, fnIn>>

CompatDatatypes ==
  {deUintDatatypeCreate(32), deUintDatatypeCreate(16), deStringDatatypeCreate,
   deTBDClassDatatypeCreate(1), deTBDClassDatatypeCreate(2),
   deClassDatatypeCreate(1), deClassDatatypeCreate(2), deClassDatatypeCreate(3)}

InitCompat ==
  /\ FixtureInit(<<>>)
  /\ fnIn \in [newDatatype : CompatDatatypes, oldDatatype : CompatDatatypes]

ApplyDatatypesCompatible ==
  /\ fnOut = <<>>
  /\ fnOut' = << datatypesCompatible(fnIn.newDatatype, fnIn.oldDatatype) >>
  /\ FixtureUnchanged

SpecCompat == InitCompat /\ [][ApplyDatatypesCompatible]_vars

VariableKinds == {Param(TRUE), Param(FALSE), Local(TRUE), Local(FALSE)}

AllBlocks == UNION {SeqsOf(VariableKinds, n) : n \in 0..MaxVariables}

MatchDatatypes ==
  {deUintDatatypeCreate(32), deTBDClassDatatypeCreate(1), deClassDatatypeCreate(1)}

InitMatch ==
  \E block \in AllBlocks :
    /\ FixtureInit(block)
    /\ \E new, old \in SeqsOf(MatchDatatypes, CountParameters(block)) :
         fnIn = [newSignature |-> [function |-> 1, paramTypes |-> new, class |-> Null],
                 oldSignature |-> [function |-> 1, paramTypes |-> old, class |-> Null]]

ApplyClassSignaturesMatch ==
  /\ fnOut = <<>>
  /\ fnOut' = << classSignaturesMatch(fnIn.newSignature, fnIn.oldSignature) >>
  /\ FixtureUnchanged

SpecMatch == InitMatch /\ [][ApplyClassSignaturesMatch]_vars

MemberNames == << "x", "y", "z", "w" >>

MemberDatatypes ==
  {deUintDatatypeCreate(32), deStringDatatypeCreate, deClassDatatypeCreate(1),
   deClassDatatypeCreate(2)}

\* The data members the binder has put in a class block.
Members(n) ==
  {[sym |-> MemberNames[n], type |-> "LOCAL", isConst |-> FALSE, generated |-> g,
    isType |-> ty, datatype |-> d, instantiated |-> TRUE, line |-> 1]
     : g \in BOOLEAN, ty \in BOOLEAN, d \in MemberDatatypes}

RECURSIVE ClassBlocks(_)
ClassBlocks(n) ==
  IF n = 0 THEN {<<>>}
  ELSE ClassBlocks(n - 1)
         \cup {Append(b, m) : b \in {c \in ClassBlocks(n - 1) : Len(c) = n - 1},
                              m \in Members(n)}

SelfExpr(theClass) ==
  deExpressionSetDatatype(deIdentExpressionCreate("self"),
                          deClassDatatypeCreate(theClass))

InitTuple ==
  /\ FixtureInit(<<>>)
  /\ fnIn \in [classBlock : ClassBlocks(MaxMembers)]

ApplyBuildClassTupleExpression ==
  /\ fnOut = <<>>
  /\ fnOut' = << buildClassTupleExpression(fnIn.classBlock, SelfExpr(1)) >>
  /\ FixtureUnchanged

SpecTuple == InitTuple /\ [][ApplyBuildClassTupleExpression]_vars

\* A class made by classCreate, with the data members the binder has put in
\* its block after the generated nextFree.
InitToString ==
  /\ functions = << FixtureConstructor(<<>>, 1), FixtureConstructor(<<>>, 2) >>
  /\ tclasses = FixtureDB.tclasses
  /\ \E members \in ClassBlocks(MaxMembers), theClass \in {1, 2} :
       /\ classes = [FixtureDB.classes EXCEPT
                       ![theClass].subBlock.variables = @ \o members]
       /\ fnIn = [theClass |-> theClass]
  /\ signatures = {}
  /\ aborted = FALSE
  /\ calls = {}
  /\ fnOut = <<>>

ApplyGenerateDefaultToStringMethod ==
  /\ fnOut = <<>>
  /\ fnOut' = << deGenerateDefaultToStringMethod(fnIn.theClass) >>
  /\ FixtureUnchanged

SpecToString == InitToString /\ [][ApplyGenerateDefaultToStringMethod]_vars

(* The methods of one class: the generated defaults and the user's        *)
(* declarations enter the class block's identifier table in any order.     *)

MethodNames == {"toString", "dump"}

\* A method the user declares in the class.
UserFunction(sym) ==
  [sym |-> sym, type |-> "PLAIN", line |-> 1,
   parameters |-> << deVariableCreate("PARAMETER", TRUE, "self", FALSE, 1) >>,
   statements |-> << [type |-> "RETURN", line |-> 1,
                      expression |-> deCStringExpressionCreate("user")] >>]

VariableIdents(variables) ==
  [k \in 1..Len(variables) |->
     [type |-> "VARIABLE", sym |-> variables[k].sym, function |-> deFunctionNull]]

InitMethods ==
  /\ functions = << FixtureConstructor(<<>>, 1), FixtureConstructor(<<>>, 2) >>
  /\ tclasses = FixtureDB.tclasses
  /\ classes = [c \in 1..Len(FixtureDB.classes) |->
                  [FixtureDB.classes[c] EXCEPT
                     !.subBlock.idents =
                       VariableIdents(FixtureDB.classes[c].subBlock.variables)]]
  /\ signatures = {}
  /\ aborted = FALSE
  /\ calls = {}
  /\ fnIn \in [theClass : 1..Len(FixtureDB.classes)]
  /\ fnOut = <<>>

MethodsUnchanged == UNCHANGED <<functions, tclasses, signatures, aborted, calls, fnIn>>

GenerateDefaultToStringMethod(theClass) ==
  /\ classes' = [classes EXCEPT ![theClass].subBlock =
       deIdentCreate(@, "FUNCTION", "toString",
                     deGenerateDefaultToStringMethod(theClass))]
  /\ UNCHANGED fnOut
  /\ MethodsUnchanged

GenerateDefaultDumpMethod(theClass) ==
  /\ classes' = [classes EXCEPT ![theClass].subBlock =
       deIdentCreate(@, "FUNCTION", "dump", deGenerateDefaultDumpMethod(theClass))]
  /\ UNCHANGED fnOut
  /\ MethodsUnchanged

DeclareMethod(theClass, sym) ==
  /\ classes' = [classes EXCEPT ![theClass].subBlock =
       deIdentCreate(@, "FUNCTION", sym, UserFunction(sym))]
  /\ UNCHANGED fnOut
  /\ MethodsUnchanged

DeclareMember(theClass, sym) ==
  /\ \A k \in 1..Len(classes[theClass].subBlock.variables) :
       classes[theClass].subBlock.variables[k].sym # sym
  /\ classes' = [classes EXCEPT ![theClass].subBlock =
       deIdentCreate([@ EXCEPT !.variables = Append(@,
                        [deVariableCreate("LOCAL", FALSE, sym, FALSE, 1) EXCEPT
                           !.datatype = deUintDatatypeCreate(32)])],
                     "VARIABLE", sym, deFunctionNull)]
  /\ UNCHANGED fnOut
  /\ MethodsUnchanged

ClassFindMethod(theClass, methodSym) ==
  /\ fnOut' = << [methodSym |-> methodSym,
                  ret |-> deClassFindMethod(theClass, methodSym)] >>
  /\ UNCHANGED classes
  /\ MethodsUnchanged

NextMethods ==
  \/ GenerateDefaultToStringMethod(fnIn.theClass)
  \/ GenerateDefaultDumpMethod(fnIn.theClass)
  \/ \E sym \in MethodNames : DeclareMethod(fnIn.theClass, sym)
  \/ \E sym \in MethodNames \cup {"x"} : DeclareMember(fnIn.theClass, sym)
  \/ \E sym \in MethodNames \cup {"x", "nextFree", "area"} :
       ClassFindMethod(fnIn.theClass, sym)

SpecMethods == InitMethods /\ [][NextMethods]_vars

-----------------------------------------------------------------------------
(* Properties *)

Tclasses == 1..Len(tclasses)

BlockOf(tclass) == functions[tclasses[tclass].function].block

\* The parameters of a block in order: position p of a signature holds the
\* datatype of the p-th of them.
Parameters(block) == SelectSeq(block, LAMBDA v : v.type = "PARAMETER")

FlaggedPositions(block) ==
  {p \in 1..Len(Parameters(block)) : Parameters(block)[p].inTclassSignature}

ClassCreateCalls(tclass) ==
  {c \in calls : c.op = "deClassCreate" /\ c.tclass = tclass}

DefaultClassCalls(tclass) ==
  {c \in calls : c.op = "deTclassGetDefaultClass" /\ c.tclass = tclass}

SignaturesOf(tclass) ==
  {s \in signatures : deFunctionGetTclass(s.function) = tclass}

\* C1: two deClassCreate calls on one tclass whose signatures carry the same
\* datatype at every parameter position flagged inTclassSignature returned
\* the same class, whatever the other positions hold and whatever was called
\* in between.
C1_Memoization ==
  \A t \in Tclasses : \A a, b \in ClassCreateCalls(t) :
    (\A p \in FlaggedPositions(BlockOf(t)) :
        a.signature.paramTypes[p] = b.signature.paramTypes[p])
    => a.ret = b.ret

C1_Witness ==
  \E t \in Tclasses : \E a, b \in ClassCreateCalls(t) :
    /\ FlaggedPositions(BlockOf(t)) # {}
    /\ a.signature # b.signature
    /\ \A p \in FlaggedPositions(BlockOf(t)) :
         a.signature.paramTypes[p] = b.signature.paramTypes[p]
    /\ a.ret = b.ret
    /\ tclasses[t].numClasses >= 2

\* C2: the classes of a tclass are numbered 1..n in list order, n being the
\* tclass's class counter and the length of its list; a deClassCreate call
\* that returns a class that already exists, and a deTclassGetDefaultClass
\* call that returns an existing class or none, leave counter and list alone.
C2_MonotonicNumbering ==
  \A t \in Tclasses :
    /\ tclasses[t].numClasses = Len(tclasses[t].classes)
    /\ \A i \in 1..Len(tclasses[t].classes) :
         /\ classes[tclasses[t].classes[i]].number = i
         /\ classes[tclasses[t].classes[i]].tclass = t
    /\ \A s \in SignaturesOf(t) :
         LET out == deClassCreate(t, s)
         IN (~out.assertFailed /\ out.ret \in 1..Len(classes))
              => out.db = DB
    /\ LET out == deTclassGetDefaultClass(t)
       IN (out.ret = Null \/ out.ret \in 1..Len(classes))
            => /\ out.db.classes = classes
               /\ out.db.tclasses[t].numClasses = tclasses[t].numClasses
               /\ out.db.tclasses[t].classes = tclasses[t].classes

C2_Witness ==
  \E t \in Tclasses :
    /\ tclasses[t].numClasses = MaxClasses
    /\ \E s \in SignaturesOf(t) : s.class # Null /\ deClassCreate(t, s).ret = s.class
    /\ DefaultClassCalls(t) # {}

\* C3: for a tclass with no parameter flagged inTclassSignature, every
\* deTclassGetDefaultClass call returns the same class; a call creates at
\* most one class and leaves hasDefaultClass set, and once a call has been
\* made no later call creates a class, whatever deClassCreate calls are made.
C3_DefaultClassSingleton ==
  \A t \in Tclasses :
    FlaggedPositions(BlockOf(t)) = {}
    => LET out == deTclassGetDefaultClass(t)
       IN /\ out.ret # Null
          /\ out.db.tclasses[t].hasDefaultClass
          /\ Len(out.db.classes) <= Len(classes) + 1
          /\ \A c \in DefaultClassCalls(t) :
               /\ c.ret = out.ret
               /\ tclasses[t].hasDefaultClass
               /\ out.db = DB

C3_Witness ==
  \E t \in Tclasses :
    /\ FlaggedPositions(BlockOf(t)) = {}
    /\ \E c \in DefaultClassCalls(t) : \E r \in ClassCreateCalls(t) :
         /\ c.ret = r.ret
         /\ c.ret # Null
    /\ Cardinality(SignaturesOf(t)) >= 2
    /\ \A s \in SignaturesOf(t) : s.class # Null
    /\ tclasses[t].numClasses = 1

\* C4: for a tclass with a parameter flagged inTclassSignature,
\* deTclassGetDefaultClass returns none in every reachable state, creates no
\* class and does not set hasDefaultClass.
C4_DefaultClassNone ==
  \A t \in Tclasses :
    FlaggedPositions(BlockOf(t)) # {}
    => /\ deTclassGetDefaultClass(t).ret = Null
       /\ deTclassGetDefaultClass(t).db = DB
       /\ ~tclasses[t].hasDefaultClass
       /\ \A c \in DefaultClassCalls(t) : c.ret = Null

C4_Witness ==
  \E t \in Tclasses :
    /\ FlaggedPositions(BlockOf(t)) # {}
    /\ tclasses[t].numClasses >= 2
    /\ DefaultClassCalls(t) # {}

\* C5: the class deTclassGetDefaultClass creates has a nextFree field typed
\* as the class's own datatype, not as an unsigned integer of the reference
\* width, and one forwarding identifier per method or inner type of the
\* tclass's constructor block, bound to the original declaration.
C5_DefaultClassShape ==
  \A t \in Tclasses :
    LET out == deTclassGetDefaultClass(t)
    IN Len(out.db.classes) > Len(classes)
       => LET theClass == out.db.classes[out.ret]
              nextFree == theClass.subBlock.variables[1]
              methods == functions[tclasses[t].function].methods
          IN /\ nextFree.sym = "nextFree"
             /\ nextFree.datatype = deClassDatatypeCreate(out.ret)
             /\ nextFree.datatype # deUintDatatypeCreate(tclasses[t].refWidth)
             /\ Len(theClass.subBlock.idents) = Len(methods)
             /\ \A i \in 1..Len(methods) :
                  /\ theClass.subBlock.idents[i].type = "FUNCTION"
                  /\ theClass.subBlock.idents[i].sym = methods[i].sym
                  /\ theClass.subBlock.idents[i].function = methods[i].sym

\* C6: when the signature carries a cached class, deClassCreate returns that
\* class and leaves the tclass's class list, its counter and hasDefaultClass
\* as they were; and no step replaces or clears the cached class of a
\* signature.
C6_FastPath ==
  \A s \in signatures :
    s.class # Null
    => LET out == deClassCreate(deFunctionGetTclass(s.function), s)
       IN /\ ~out.assertFailed
          /\ out.ret = s.class
          /\ out.db = DB

C6_CacheWrittenOnce ==
  \A s \in signatures : s.class # Null => s \in signatures'

C6_MemoizedFastPath == [] C6_FastPath /\ [][C6_CacheWrittenOnce]_vars

C6_Witness ==
  \E s \in signatures :
    /\ s.class # Null
    /\ \E c \in calls : c.op = "deClassCreate" /\ c.signature = SigKey(s)
                          /\ c.ret = s.class
    /\ \E s2 \in signatures : s2.class # Null /\ s2.class # s.class
    /\ deClassCreate(deFunctionGetTclass(s.function), s).ret = s.class

\* C7 as claimed: two deClassCreate calls on one tclass whose signatures
\* differ in the datatype at some flagged parameter position returned
\* distinct classes.
C7_DistinctForDifferentTypes ==
  \A t \in Tclasses : \A a, b \in ClassCreateCalls(t) :
    (\E p \in FlaggedPositions(BlockOf(t)) :
        a.signature.paramTypes[p] # b.signature.paramTypes[p])
    => a.ret # b.ret

Incompatible(d1, d2) == ~datatypesCompatible(d1, d2) /\ ~datatypesCompatible(d2, d1)

\* C7 as amended: two deClassCreate calls on one tclass whose signatures hold,
\* at some flagged parameter position, datatypes that are compatible in
\* neither direction returned distinct classes.
C7_DistinctForIncompatibleTypes ==
  \A t \in Tclasses : \A a, b \in ClassCreateCalls(t) :
    (\E p \in FlaggedPositions(BlockOf(t)) :
        Incompatible(a.signature.paramTypes[p], b.signature.paramTypes[p]))
    => a.ret # b.ret

C7_Witness ==
  \E t \in Tclasses : \E a, b \in ClassCreateCalls(t) :
    /\ \E p \in FlaggedPositions(BlockOf(t)) :
         /\ Incompatible(a.signature.paramTypes[p], b.signature.paramTypes[p])
         /\ a.signature.paramTypes[p].type = "TBDCLASS"
         /\ b.signature.paramTypes[p].type = "UINT"
    /\ a.ret # b.ret

\* C8: datatypesCompatible(new, old) holds exactly when new and old are the
\* same datatype, or new is the placeholder of a tclass and old is the
\* datatype of a class of that tclass; never when old is a placeholder and
\* new the class datatype, and never across two tclasses.
C8_Compatibility ==
  fnOut # <<>>
  => LET new == fnIn.newDatatype
         old == fnIn.oldDatatype
     IN /\ fnOut[1] <=> \/ new = old
                        \/ /\ new.type = "TBDCLASS"
                           /\ old.type = "CLASS"
                           /\ \E i \in 1..Len(tclasses[new.tclass].classes) :
                                tclasses[new.tclass].classes[i] = old.class
        /\ (old.type = "TBDCLASS" /\ new.type = "CLASS") => ~fnOut[1]
        /\ (new.type = "TBDCLASS" /\ old.type = "CLASS"
              /\ classes[old.class].tclass # new.tclass) => ~fnOut[1]

C8_Witness ==
  /\ fnOut = << TRUE >>
  /\ fnIn.newDatatype.type = "TBDCLASS"
  /\ fnIn.oldDatatype.type = "CLASS"
  /\ fnIn.oldDatatype.class = 3

LeadingParameters(block) ==
  CHOOSE n \in 0..Len(block) :
    /\ \A i \in 1..n : block[i].type = "PARAMETER"
    /\ n = Len(block) \/ block[n + 1].type # "PARAMETER"

\* C9: classSignaturesMatch is true exactly when, for every flagged variable
\* in the block's leading run of parameters, the two datatypes at that
\* parameter's position are compatible; unflagged parameters, and variables
\* at or after the first non-parameter, have no influence.
C9_SignatureMatchRule ==
  fnOut # <<>>
  => LET block == functions[fnIn.newSignature.function].block
     IN fnOut[1] <=>
          \A i \in 1..LeadingParameters(block) :
            block[i].inTclassSignature
            => datatypesCompatible(fnIn.newSignature.paramTypes[i],
                                   fnIn.oldSignature.paramTypes[i])

C9_Witness ==
  LET block == functions[fnIn.newSignature.function].block
  IN /\ fnOut = << TRUE >>
     /\ block = << Param(FALSE), Local(TRUE), Param(TRUE) >>
     /\ \A p \in 1..2 : Incompatible(fnIn.newSignature.paramTypes[p],
                                     fnIn.oldSignature.paramTypes[p])

PrintedVariables(theClass) ==
  SelectSeq(classes[theClass].subBlock.variables,
            LAMBDA v : ~v.isType /\ ~v.generated)

TextPiece(piece, text) == piece.kind = "text" /\ piece.text = text

C11_ToStringShape ==
  fnOut # <<>> =>
    LET method == fnOut[1]
        printed == PrintedVariables(fnIn.theClass)
        n == Len(printed)
        modExpr == method.statements[1].expression
        format == modExpr.children[1].string
        tupleExpr == modExpr.children[2]
        Access(i) == LET child == tupleExpr.children[i]
                     IN IF child.type = "CAST" THEN child.children[2] ELSE child
    IN /\ method.sym = "toString"
       /\ Len(method.statements) = 1
       /\ method.statements[1].type = "RETURN"
       /\ modExpr.type = "MOD"
       /\ modExpr.children[1].type = "STRING"
       /\ tupleExpr.type = "TUPLE"
       /\ Len(tupleExpr.children) = n
       /\ \A i \in 1..n :
            /\ Access(i).type = "DOT"
            /\ Access(i).children[1].name = "self"
            /\ Access(i).children[2].name = printed[i].sym
            /\ Access(i).children[2].name # "nextFree"
       /\ Len(format) = IF n = 0 THEN 2 ELSE 4 * n + 1
       /\ TextPiece(format[1], "{")
       /\ TextPiece(format[Len(format)], "}")
       /\ \A i \in 1..n :
            /\ i > 1 => TextPiece(format[4 * i - 3], ", ")
            /\ TextPiece(format[4 * i - 2], printed[i].sym)
            /\ TextPiece(format[4 * i - 1], " = ")
            /\ format[4 * i].kind = "slot"
            /\ format[4 * i].datatype = tupleExpr.children[i].datatype
       /\ Cardinality({k \in 1..Len(format) : format[k].kind = "slot"}) = n

\* A class whose block holds the generated nextFree, a printed class member
\* (cast in the tuple) and a second printed member.
C11_Witness ==
  /\ fnOut # <<>>
  /\ LET variables == classes[fnIn.theClass].subBlock.variables
         tupleExpr == fnOut[1].statements[1].expression.children[2]
     IN /\ Len(variables) = 3
        /\ variables[1].generated
        /\ Len(tupleExpr.children) = 2
        /\ tupleExpr.children[1].type = "CAST"
        /\ tupleExpr.children[2].type = "DOT"

(* C12: the method deGenerateDefaultDumpMethod builds has one statement,   *)
(* a print of the two arguments self.toString() and the string "\n", and   *)
(* no access to a member; so a generated dump that is bound in the class   *)
(* writes what the method bound to toString at that time returns, then     *)
(* one newline, also when toString was declared after dump was generated.  *)
NewlineString == deAppendToBuffer(<<>>, "\n")

C12_DumpDelegates ==
  \A c \in 1..Len(classes) :
    LET dump == deGenerateDefaultDumpMethod(c)
        printArgsExpr == dump.statements[1].expression
        callExpr == printArgsExpr.children[1]
        accessExpr == callExpr.children[1]
        bound == deClassFindMethod(c, "dump")
        toString == deClassFindMethod(c, "toString")
    IN /\ dump.sym = "dump"
       /\ Len(dump.parameters) = 1
       /\ dump.parameters[1].sym = "self"
       /\ Len(dump.statements) = 1
       /\ dump.statements[1].type = "PRINT"
       /\ printArgsExpr.type = "LIST"
       /\ Len(printArgsExpr.children) = 2
       /\ callExpr.type = "CALL"
       /\ accessExpr.type = "DOT"
       /\ accessExpr.children[1].type = "IDENT"
       /\ accessExpr.children[1].name = "self"
       /\ accessExpr.children[2].type = "IDENT"
       /\ accessExpr.children[2].name = "toString"
       /\ callExpr.children[2].type = "LIST"
       /\ callExpr.children[2].children = <<>>
       /\ printArgsExpr.children[2].type = "STRING"
       /\ printArgsExpr.children[2].string = NewlineString
       /\ (bound = dump /\ toString # deFunctionNull) =>
            PrintOutput(c, bound) = ReturnValue(toString) \o NewlineString

\* The generated dump is bound, and the user's toString was bound after it.
C12_Witness ==
  \E c \in 1..Len(classes) :
    LET idents == classes[c].subBlock.idents
    IN \E k, j \in 1..Len(idents) :
         /\ k < j
         /\ idents[k].sym = "dump"
         /\ idents[k].function = deGenerateDefaultDumpMethod(c)
         /\ idents[j].sym = "toString"
         /\ idents[j].function = UserFunction("toString")

(* C13: deClassFindMethod returns no function when the class block has no  *)
(* identifier of the name or the identifier is not a function identifier,  *)
(* and the identifier's function otherwise; after every step that binds a  *)
(* name in the class block, generated or declared, the lookup of that name *)
(* yields what the step bound.                                             *)
LookupNames == MethodNames \cup {"x", "nextFree", "area"}

C13_LookupResult ==
  \A c \in 1..Len(classes), sym \in LookupNames :
    LET idents == classes[c].subBlock.idents
        entries == {k \in 1..Len(idents) : idents[k].sym = sym}
        ret == deClassFindMethod(c, sym)
    IN /\ Cardinality(entries) <= 1
       /\ entries = {} => ret = deFunctionNull
       /\ \A k \in entries :
            /\ idents[k].type # "FUNCTION" => ret = deFunctionNull
            /\ idents[k].type = "FUNCTION" => ret = idents[k].function

C13_LastBinding ==
  \A c \in 1..Len(classes) :
    classes'[c].subBlock.idents # classes[c].subBlock.idents =>
      LET idents == classes'[c].subBlock.idents
          bound == idents[Len(idents)]
      IN \A sym \in LookupNames :
           bound.sym = sym =>
             deClassFindMethod(c, sym)' =
               IF bound.type = "FUNCTION" THEN bound.function ELSE deFunctionNull

C13_FindMethod == [] C13_LookupResult /\ [][C13_LastBinding]_vars

\* The lookup of toString returned the user's method in a class whose
\* generated toString is another function, and dump names a member.
C13_Witness ==
  /\ fnOut # <<>>
  /\ fnOut[1].methodSym = "toString"
  /\ fnOut[1].ret = UserFunction("toString")
  /\ fnOut[1].ret # deGenerateDefaultToStringMethod(fnIn.theClass)
  /\ deBlockFindIdent(classes[fnIn.theClass].subBlock, "dump").type = "VARIABLE"
  /\ deClassFindMethod(fnIn.theClass, "dump") = deFunctionNull

(* C14: deTclassCreate on a constructor that has no tclass yet yields a    *)
(* new tclass with the given reference width and line and no class, makes  *)
(* it the constructor's tclass and the last of the root's tclasses, and    *)
(* adds to the constructor's class block a destructor destroy with the one *)
(* parameter self and no statement exactly when the constructor is not     *)
(* builtin; so in every state a tclass's constructor has a destroy method  *)
(* exactly when it is not builtin.                                         *)
RefWidths == {16, 32}

Lines == {1, 2}

DestroyMethods(methods) ==
  {k \in 1..Len(methods) : methods[k].sym = "destroy"}

IsDestroyMethod(method) ==
  /\ method.sym = "destroy"
  /\ method.type = "DESTRUCTOR"
  /\ Len(method.parameters) = 1
  /\ method.parameters[1].sym = "self"
  /\ method.parameters[1].type = "PARAMETER"
  /\ method.statements = <<>>

C14_TclassCreate ==
  /\ \A f \in DOMAIN functions, refWidth \in RefWidths, line \in Lines :
       functions[f].tclass = Null =>
         LET out == deTclassCreate(f, refWidth, line)
             tclass == out.tclasses[out.ret]
             before == functions[f].methods
             after == out.functions[f].methods
         IN /\ out.ret = Len(tclasses) + 1
            /\ Len(out.tclasses) = Len(tclasses) + 1
            /\ \A t \in Tclasses : out.tclasses[t] = tclasses[t]
            /\ tclass.refWidth = refWidth
            /\ tclass.line = line
            /\ tclass.function = f
            /\ tclass.numClasses = 0
            /\ tclass.classes = <<>>
            /\ ~tclass.hasDefaultClass
            /\ out.functions[f].tclass = out.ret
            /\ \A g \in DOMAIN functions : g # f => out.functions[g] = functions[g]
            /\ functions[f].builtin => after = before
            /\ ~functions[f].builtin =>
                 /\ Len(after) = Len(before) + 1
                 /\ \A k \in 1..Len(before) : after[k] = before[k]
                 /\ IsDestroyMethod(after[Len(after)])
  /\ \A t \in Tclasses :
       LET constructor == functions[tclasses[t].function]
       IN /\ constructor.tclass = t
          /\ constructor.builtin => DestroyMethods(constructor.methods) = {}
          /\ ~constructor.builtin =>
               /\ Cardinality(DestroyMethods(constructor.methods)) = 1
               /\ \A k \in DestroyMethods(constructor.methods) :
                    IsDestroyMethod(constructor.methods[k])

\* The tclass of a user class has been created, and its class block holds
\* the destructor after the user's method.
C14_Witness ==
  \E t \in Tclasses :
    LET constructor == functions[tclasses[t].function]
    IN /\ ~constructor.builtin
       /\ tclasses[t].refWidth = constructor.refWidth
       /\ Len(constructor.methods) = 2
       /\ IsDestroyMethod(constructor.methods[2])

(* C15: deCopyTclass on a tclass and a destination constructor without a   *)
(* tclass yields a new tclass of the destination with the reference width  *)
(* and line of the original, no class, class counter 0 and hasDefaultClass *)
(* false, and leaves every existing tclass and class as it was; the class  *)
(* lists of two tclasses never share a class, each class being in the list *)
(* of its own tclass only.                                                 *)
ClassesOf(tclass) ==
  {tclasses[tclass].classes[i] : i \in 1..Len(tclasses[tclass].classes)}

C15_CopyTclass ==
  /\ \A t \in Tclasses, dest \in DOMAIN functions :
       functions[dest].tclass = Null =>
         LET out == deCopyTclass(t, dest)
             copy == out.tclasses[out.ret]
         IN /\ out.ret \notin Tclasses
            /\ copy.function = dest
            /\ out.functions[dest].tclass = out.ret
            /\ copy.refWidth = tclasses[t].refWidth
            /\ copy.line = tclasses[t].line
            /\ copy.classes = <<>>
            /\ copy.numClasses = 0
            /\ ~copy.hasDefaultClass
            /\ \A u \in Tclasses : out.tclasses[u] = tclasses[u]
  /\ \A t, u \in Tclasses : t # u => ClassesOf(t) \cap ClassesOf(u) = {}
  /\ \A c \in 1..Len(classes) :
       \A t \in Tclasses : c \in ClassesOf(t) <=> classes[c].tclass = t
  /\ \A t \in Tclasses :
       tclasses[t].function # 1 =>
         /\ tclasses[t].refWidth = tclasses[functions[1].tclass].refWidth
         /\ tclasses[t].line = tclasses[functions[1].tclass].line

\* The original had a class, then the copy got one, then the original got
\* another one.
C15_Witness ==
  /\ Len(tclasses) = 2
  /\ Len(classes) = 3
  /\ tclasses[1].classes = << 1, 3 >>
  /\ tclasses[2].classes = << 2 >>
  /\ tclasses[2].refWidth = tclasses[1].refWidth

(* C16: for a signature without a cached class, a deClassCreate call that  *)
(* returns yields the first class of the tclass's list whose founding      *)
(* signature matches the signature, also when several match, provided no   *)
(* class without a founding signature precedes it, and leaves the database *)
(* alone; it creates a class only when no founding signature matches, and  *)
(* then appends it to the list.                                            *)
Unfounded(tclass) ==
  {i \in 1..Len(tclasses[tclass].classes) :
     classes[tclasses[tclass].classes[i]].firstSignature = NoSignature}

Matching(tclass, signature) ==
  {i \in 1..Len(tclasses[tclass].classes) :
     /\ i \notin Unfounded(tclass)
     /\ classSignaturesMatch(signature,
                             classes[tclasses[tclass].classes[i]].firstSignature)}

FirstOf(positions) == CHOOSE i \in positions : \A j \in positions : i <= j

C16_FirstMatch ==
  \A s \in signatures :
    LET t == deFunctionGetTclass(s.function)
        out == deClassCreate(t, s)
        list == tclasses[t].classes
    IN (s.class = Null /\ ~out.assertFailed) =>
         /\ (/\ Matching(t, s) # {}
             /\ \A i \in Unfounded(t) : i > FirstOf(Matching(t, s))) =>
              /\ out.ret = list[FirstOf(Matching(t, s))]
              /\ classes[out.ret].number = FirstOf(Matching(t, s))
              /\ out.db = DB
         /\ (Matching(t, s) = {} /\ Unfounded(t) = {}) =>
              /\ out.ret \notin 1..Len(classes)
              /\ out.db.tclasses[t].classes = Append(list, out.ret)
         /\ out.db # DB => Matching(t, s) = {}

\* A signature with the placeholder at a flagged position matched the
\* founding signatures of two classes, and the call returned the first.
C16_Witness ==
  \E s \in signatures :
    LET t == deFunctionGetTclass(s.function)
        list == tclasses[t].classes
    IN /\ s.class = Null
       /\ Unfounded(t) = {}
       /\ Cardinality(Matching(t, s)) >= 2
       /\ \E p \in FlaggedPositions(BlockOf(t)) : s.paramTypes[p].type = "TBDCLASS"
       /\ Call("deClassCreate", t, SigKey(s), list[FirstOf(Matching(t, s))]) \in calls

(* C17: a class in a tclass's list keeps its list position, number, tclass *)
(* and reference width in every later state, the reference width being     *)
(* that of its tclass; and a deClassCreate or deTclassGetDefaultClass call *)
(* on a tclass leaves every existing class and the list and counter of     *)
(* every other tclass as they were, and either leaves the tclass's own     *)
(* list alone or appends one new class at its end.                         *)
PoolFrame(tclass, db) ==
  LET list == tclasses[tclass].classes
      theClass == Len(classes) + 1
  IN /\ \A u \in Tclasses :
          u # tclass =>
            /\ db.tclasses[u].classes = tclasses[u].classes
            /\ db.tclasses[u].numClasses = tclasses[u].numClasses
     /\ \A c \in 1..Len(classes) : db.classes[c] = classes[c]
     /\ \/ /\ db.tclasses[tclass].classes = list
           /\ db.tclasses[tclass].numClasses = tclasses[tclass].numClasses
           /\ db.classes = classes
        \/ /\ db.tclasses[tclass].classes = Append(list, theClass)
           /\ db.tclasses[tclass].numClasses = tclasses[tclass].numClasses + 1
           /\ Len(db.classes) = theClass
           /\ db.classes[theClass].tclass = tclass
           /\ db.classes[theClass].number = Len(list) + 1
           /\ db.classes[theClass].refWidth = tclasses[tclass].refWidth

C17_CallFrame ==
  /\ \A t \in Tclasses : PoolFrame(t, deTclassGetDefaultClass(t).db)
  /\ \A s \in signatures :
       LET t == deFunctionGetTclass(s.function)
       IN PoolFrame(t, deClassCreate(t, s).db)
  /\ \A t \in Tclasses : \A i \in 1..Len(tclasses[t].classes) :
       LET c == tclasses[t].classes[i]
       IN /\ classes[c].tclass = t
          /\ classes[c].refWidth = tclasses[t].refWidth

C17_ClassStays ==
  \A t \in Tclasses : \A i \in 1..Len(tclasses[t].classes) :
    LET c == tclasses[t].classes[i]
    IN /\ tclasses'[t].classes[i] = c
       /\ classes'[c].number = classes[c].number
       /\ classes'[c].tclass = classes[c].tclass
       /\ classes'[c].refWidth = classes[c].refWidth
       /\ tclasses'[t].refWidth = tclasses[t].refWidth

C17_AppendOnlyPool == [] C17_CallFrame /\ [][C17_ClassStays]_vars

\* The copy got the first class and, after the original got one, a second.
C17_Witness ==
  /\ Len(tclasses) = 2
  /\ tclasses[2].classes = << 1, 3 >>
  /\ tclasses[1].classes = << 2 >>
  /\ classes[3].number = 2
  /\ classes[3].refWidth = tclasses[2].refWidth

(* C18: a tclass flagged hasDefaultClass has a class, and                  *)
(* deTclassGetDefaultClass returns for it the first class of its list,     *)
(* whose number is 1, and changes nothing; no call leaves a tclass flagged *)
(* with an empty list, and no step clears the flag.                        *)
C18_DefaultClassPresent ==
  /\ \A t \in Tclasses :
       tclasses[t].hasDefaultClass =>
         LET out == deTclassGetDefaultClass(t)
         IN /\ tclasses[t].classes # <<>>
            /\ out.ret # Null
            /\ out.ret = tclasses[t].classes[1]
            /\ classes[out.ret].number = 1
            /\ out.db = DB
  /\ \A t \in Tclasses :
       LET db == deTclassGetDefaultClass(t).db
       IN db.tclasses[t].hasDefaultClass => db.tclasses[t].classes # <<>>

C18_FlagKept ==
  \A t \in Tclasses : tclasses[t].hasDefaultClass => tclasses'[t].hasDefaultClass

C18_DefaultClassKept == [] C18_DefaultClassPresent /\ [][C18_FlagKept]_vars

\* A flagged tclass whose default class a deTclassGetDefaultClass call
\* returned, and on which deClassCreate was called too.
C18_Witness ==
  \E t \in Tclasses :
    /\ tclasses[t].hasDefaultClass
    /\ tclasses[t].classes # <<>>
    /\ DefaultClassCalls(t) # {}
    /\ ClassCreateCalls(t) # {}
    /\ \A c \in DefaultClassCalls(t) : c.ret = tclasses[t].classes[1]

(* C19: a tclass none of whose constructor-block variables is flagged      *)
(* inTclassSignature has at most one class, every deClassCreate and        *)
(* deTclassGetDefaultClass call on it returned that class, and once the    *)
(* class exists deClassCreate returns it for every signature without a     *)
(* cached class and deTclassGetDefaultClass returns it without creating a  *)
(* second one.                                                             *)
C19_SingleClass ==
  \A t \in Tclasses :
    ~tclassHasTemplateParameters(t) =>
      LET list == tclasses[t].classes
      IN /\ Len(list) <= 1
         /\ \A c \in ClassCreateCalls(t) \cup DefaultClassCalls(t) :
              list # <<>> /\ c.ret = list[1]
         /\ list # <<>> =>
              /\ \A s \in SignaturesOf(t) :
                   s.class = Null =>
                     LET out == deClassCreate(t, s)
                     IN /\ ~out.assertFailed
                        /\ out.ret = list[1]
                        /\ out.db.tclasses[t].classes = list
              /\ LET out == deTclassGetDefaultClass(t)
                 IN /\ out.ret = list[1]
                    /\ out.db.tclasses[t].classes = list

(* C20: the assertion of the scan never fails: for every signature without *)
(* a cached class, whenever findExistingClass meets a class that has no    *)
(* founding signature the tclass is flagged hasDefaultClass, also when the *)
(* founding signature of the class an earlier deClassCreate call created   *)
(* has not been recorded yet.                                              *)
C20_ScanAssertion ==
  /\ ~aborted
  /\ \A s \in signatures : s.class = Null => ~findExistingClass(s).assertFailed

====
